---- MODULE Spec2Model ----
(***************************************************************************)
(* State-machine model of the EnphaseScheduleCard custom element           *)
(* (custom_components/enphase_envoy_cloud_control/www/                     *)
(* enphase-schedule-card.js): the working state (selection, edit draft,    *)
(* add draft, error), the Home Assistant snapshot it reads schedules from, *)
(* the rendered view with the listeners it installs, and the service calls *)
(* handed to hass.callService.                                             *)
(***************************************************************************)
EXTENDS Integers, Sequences, FiniteSets, TLC

(***************************************************************************)
(* Values                                                                  *)
(***************************************************************************)

\* selectedId: null in the constructor; every falsy value behaves alike.
Null == "null"

\* The messages the handlers store in this._state.error.
MsgTimeRange == "Start time and end time must differ."
MsgNoDays == "Select at least one day."
MsgLimit == "Limit must be between 0 and 100."
MsgSelectUpdate == "Select a schedule to update."
MsgSelectDelete == "Select a schedule to delete."

\* Services named by setConfig's defaults.
AddService == "add_schedule"
UpdateService == "update_schedule"
DeleteService == "delete_schedule"

\* Lower and upper limit accepted by _validate.
LimitMin == 0
LimitMax == 100

\* A limit is held as the number Number(limit) yields for it: num/den with
\* den > 0, or NaN for a value that is not numeric.
Num(n) == [nan |-> FALSE, num |-> n, den |-> 1]
Ratio(n, d) == [nan |-> FALSE, num |-> n, den |-> d]
NaN == [nan |-> TRUE, num |-> 0, den |-> 1]

\* Number.isNaN(x), x < n and x > n for an integer n; a comparison with NaN
\* is false.
IsNaN(x) == x.nan
Lt(x, n) == ~x.nan /\ x.num < n * x.den
Gt(x, n) == ~x.nan /\ x.num > n * x.den

(***************************************************************************)
(* Bounds of the exploration                                               *)
(***************************************************************************)

\* Service calls that may be awaiting the gateway's answer at one time.
MaxOutstanding == 2

\* Schedules the gateway reports (entity.attributes.schedules entries).
Sched1 ==
  [id |-> "sched-1", type |-> "cfg", start |-> "22:00", end |-> "06:00",
   limit |-> Num(40), days |-> <<6, 7>>]
Sched2 ==
  [id |-> "sched-2", type |-> "dtg", start |-> "22:00", end |-> "06:00",
   limit |-> Num(40), days |-> <<6, 7>>]

\* Snapshots of the schedule list delivered through the hass setter.
ReportedLists == { <<Sched1, Sched2>>, <<Sched2>> }

\* Ids a selection is attempted with ("sched-3" is never reported).
SelectIds == {"sched-1", "sched-3"}

\* Values the user enters in the form controls of the edit section and of
\* the add section, and the day chips the user clicks in each.
EditInputs ==
  [schedule_type |-> {"dtg"}, start_time |-> {}, end_time |-> {"22:00"},
   limit |-> {"101"}]
AddInputs ==
  [schedule_type |-> {"dtg"}, start_time |-> {"22:00"}, end_time |-> {},
   limit |-> {"101"}]
EditDayChips == {6, 7}
AddDayChips == {7}

\* The helper methods applied on their own: the longest days array, the
\* weekday codes in it, the days passed to _toggleDay (0 and 8 are no
\* weekday codes) and the fields of the schedules passed to _validate.
MaxDaysLen == 2
DayCodes == 1..7
ToggleArgs == 0..8
ValidateTimes == {"08:00", "22:00"}
ValidateLimits ==
  {Num(-1), Num(0), Num(50), Num(100), Num(101),
   Ratio(-1, 2), Ratio(25, 2), Ratio(201, 2), NaN}
ValidateDays == {<<>>, <<1>>, <<1, 2, 3>>}

\* Reasons the gateway gives when it rejects a call.
Reasons == {"token expired"}

Drafts == {"edit", "add"}

(***************************************************************************)
(* State                                                                   *)
(***************************************************************************)

VARIABLES
  config,       \* this._config is set (setConfig has run)
  hass,         \* this._hass: [present, schedules]
  state,        \* this._state: [selectedId, edit, add, error]
  alias,        \* index of the reported schedule whose days array is the
                \* very array object of state.edit.days (0: none)
  view,         \* what the last _render put in the shadow root
  outstanding,  \* per draft, the service calls not yet answered
  sent,         \* the calls the last step handed to hass.callService
  last,         \* the handler or event of the last step
  calc          \* a helper method applied on its own: arguments and result

vars ==
  <<config, hass, state, alias, view, outstanding, sent, last, calc>>

(***************************************************************************)
(* Pure helpers                                                            *)
(***************************************************************************)

\* _emptySchedule(defaultType)
EmptySchedule(defaultType) ==
  [schedule_type |-> defaultType,
   start_time |-> "00:00",
   end_time |-> "00:00",
   limit |-> Num(0),
   days |-> <<>>]

\* Number(event.target.value) for the values entered in a number input.
NumberOfInput(raw) ==
  CASE raw = "" -> Num(0)
    [] raw = "0" -> Num(0)
    [] raw = "40" -> Num(40)
    [] raw = "50" -> Num(50)
    [] raw = "100" -> Num(100)
    [] raw = "101" -> Num(101)
    [] raw = "-1" -> Num(-1)
    [] raw = "12.5" -> Ratio(25, 2)
    [] raw = "100.5" -> Ratio(201, 2)

\* _validate without the check of the days.
ValidateSkipDays(schedule) ==
  IF schedule.start_time = schedule.end_time THEN MsgTimeRange
  ELSE IF IsNaN(schedule.limit) \/ Lt(schedule.limit, LimitMin)
          \/ Gt(schedule.limit, LimitMax) THEN MsgLimit
  ELSE ""

\* _validate with the upper limit check dropped.
ValidateNoUpperLimit(schedule) ==
  IF schedule.start_time = schedule.end_time THEN MsgTimeRange
  ELSE IF Len(schedule.days) = 0 THEN MsgNoDays
  ELSE IF IsNaN(schedule.limit) \/ Lt(schedule.limit, LimitMin) THEN MsgLimit
  ELSE ""

\* _validate with the check of the days ahead of the check of the times.
ValidateDaysFirst(schedule) ==
  IF Len(schedule.days) = 0 THEN MsgNoDays
  ELSE IF schedule.start_time = schedule.end_time THEN MsgTimeRange
  ELSE IF IsNaN(schedule.limit) \/ Lt(schedule.limit, LimitMin)
          \/ Gt(schedule.limit, LimitMax) THEN MsgLimit
  ELSE ""

\* _validate(schedule): the first failing check's message, "" when none.
Validate(schedule) ==
  IF schedule.start_time = schedule.end_time THEN MsgTimeRange
  ELSE IF Len(schedule.days) = 0 THEN MsgNoDays
  ELSE IF IsNaN(schedule.limit) \/ Lt(schedule.limit, LimitMin)
          \/ Gt(schedule.limit, LimitMax) THEN MsgLimit
  ELSE ""

\* Array.prototype.indexOf: the first index holding x, 0 when absent.
IndexOf(s, x) ==
  IF \E i \in 1..Len(s) : s[i] = x
  THEN CHOOSE i \in 1..Len(s) : s[i] = x /\ \A j \in 1..(i - 1) : s[j] # x
  ELSE 0

\* Array.prototype.splice(idx, 1)
RemoveAt(s, i) == SubSeq(s, 1, i - 1) \o SubSeq(s, i + 1, Len(s))

RECURSIVE InsertSorted(_, _)
InsertSorted(s, x) ==
  IF s = <<>> THEN <<x>>
  ELSE IF x < Head(s) THEN <<x>> \o s
  ELSE <<Head(s)>> \o InsertSorted(Tail(s), x)

\* Array.prototype.sort((a, b) => a - b)
RECURSIVE SortAsc(_)
SortAsc(s) ==
  IF s = <<>> THEN <<>> ELSE InsertSorted(SortAsc(Tail(s)), Head(s))

\* _toggleDay that pushes without sorting.
ToggleDayNoSort(days, day) ==
  LET idx == IndexOf(days, day) IN
    IF idx >= 1 THEN RemoveAt(days, idx)
    ELSE Append(days, day)

\* _toggleDay that pushes a day whether it is in the array or not.
ToggleDayAlwaysPush(days, day) == SortAsc(Append(days, day))

\* _toggleDay(target, day), as the new content of target.days.
ToggleDay(days, day) ==
  LET idx == IndexOf(days, day) IN
    IF idx >= 1 THEN RemoveAt(days, idx)
    ELSE SortAsc(Append(days, day))

\* _getSchedules()
GetSchedules ==
  IF ~hass.present \/ ~config THEN <<>> ELSE hass.schedules

\* find that settles for the first schedule when no id matches.
FindIndexOrFirst(schedules, id) ==
  IF \E i \in 1..Len(schedules) : schedules[i].id = id
  THEN CHOOSE i \in 1..Len(schedules) :
         schedules[i].id = id /\ \A j \in 1..(i - 1) : schedules[j].id # id
  ELSE IF Len(schedules) > 0 THEN 1 ELSE 0

\* schedules.find((sched) => sched.id === id), as an index (0: undefined).
FindIndex(schedules, id) ==
  IF \E i \in 1..Len(schedules) : schedules[i].id = id
  THEN CHOOSE i \in 1..Len(schedules) :
         schedules[i].id = id /\ \A j \in 1..(i - 1) : schedules[j].id # id
  ELSE 0

\* A selection that gives the draft an empty days array.
SpreadDaysEmpty(i, days) == [days |-> <<>>, alias |-> 0]

\* selected.days without the spread: the draft holds the reported array.
ShareDays(i, days) == [days |-> days, alias |-> i]

\* [...selected.days]: a new array with the same elements; i is the index of
\* the selected schedule.  The result names the array the draft will hold.
SpreadDays(i, days) == [days |-> days, alias |-> 0]

\* _serviceCall that drops a call while another is unanswered.
ServiceCallWhenIdle(service, data) ==
  IF ~hass.present \/ outstanding.edit + outstanding.add > 0 THEN <<>>
  ELSE <<[service |-> service, data |-> data]>>

\* _serviceCall(service, data): the calls made through hass.callService.
ServiceCall(service, data) ==
  IF ~hass.present THEN <<>>
  ELSE <<[service |-> service, data |-> data]>>

\* The update data with the default type in place of the draft's.
UpdateDataDefaultType(st) ==
  [schedule_id |-> st.selectedId,
   schedule_type |-> "cfg",
   start_time |-> st.edit.start_time,
   end_time |-> st.edit.end_time,
   limit |-> st.edit.limit,
   days |-> st.edit.days,
   confirm |-> TRUE]

\* The data object _handleSave builds for the update service; the limit is
\* held as its number, which is what Number(limit) sends.
UpdateData(st) ==
  [schedule_id |-> st.selectedId,
   schedule_type |-> st.edit.schedule_type,
   start_time |-> st.edit.start_time,
   end_time |-> st.edit.end_time,
   limit |-> st.edit.limit,
   days |-> st.edit.days,
   confirm |-> TRUE]

\* The delete data without the confirmation.
DeleteDataNoConfirm(st) ==
  [schedule_id |-> st.selectedId, confirm |-> FALSE]

\* The data object _handleDelete builds for the delete service.
DeleteData(st) ==
  [schedule_id |-> st.selectedId, confirm |-> TRUE]

\* The add data with start and end exchanged.
AddDataSwapped(st) ==
  [schedule_type |-> st.add.schedule_type,
   start_time |-> st.add.end_time,
   end_time |-> st.add.start_time,
   limit |-> st.add.limit,
   days |-> st.add.days]

\* The data object _handleAdd builds for the add service.
AddData(st) ==
  [schedule_type |-> st.add.schedule_type,
   start_time |-> st.add.start_time,
   end_time |-> st.add.end_time,
   limit |-> st.add.limit,
   days |-> st.add.days]

\* A selection test that never fires.
NoSelectionNever(st) == FALSE

\* !this._state.selectedId
NoSelection(st) == st.selectedId = Null

\* A failure that also puts both drafts back to the empty schedule.
SetErrorAndReset(st, message) ==
  [st EXCEPT !.error = message,
             !.edit = EmptySchedule("cfg"),
             !.add = EmptySchedule("cfg")]

\* this._state.error = message of a failed check
SetError(st, message) == [st EXCEPT !.error = message]

\* A commit that leaves the error as it is.
KeepError(st) == st

\* this._state.error = "" before a service call
ClearError(st) == [st EXCEPT !.error = ""]

\* A render that installs the listeners of a draft the first time only.
RenderListenersOnce(cfg, st, v) ==
  IF ~cfg THEN v
  ELSE [rendered |-> TRUE, error |-> st.error,
        editLive |-> v.editLive \/ ~v.rendered,
        addLive |-> v.addLive \/ ~v.rendered]

\* _render(): nothing without a config; otherwise the shadow root shows
\* st.error and the new listeners hold the draft objects of st.
Render(cfg, st, v) ==
  IF ~cfg THEN v
  ELSE [rendered |-> TRUE, error |-> st.error,
        editLive |-> TRUE, addLive |-> TRUE]

\* Change listeners of which the one of the end input writes the start.
SetFieldEndWritesStart(draft, field, raw) ==
  CASE field = "schedule_type" -> [draft EXCEPT !.schedule_type = raw]
    [] field = "start_time" -> [draft EXCEPT !.start_time = raw]
    [] field = "end_time" -> [draft EXCEPT !.start_time = raw]
    [] field = "limit" -> [draft EXCEPT !.limit = NumberOfInput(raw)]

\* A refresh that drops a selection the new list no longer holds.
RefreshDropsSelection(st, list) ==
  IF FindIndex(list, st.selectedId) = 0
  THEN [st EXCEPT !.selectedId = Null]
  ELSE st

\* What set hass(hass) does to this._state: nothing, it assigns this._hass.
Refresh(st, list) == st

\* The draft with one field set by a change listener.
SetField(draft, field, raw) ==
  CASE field = "schedule_type" -> [draft EXCEPT !.schedule_type = raw]
    [] field = "start_time" -> [draft EXCEPT !.start_time = raw]
    [] field = "end_time" -> [draft EXCEPT !.end_time = raw]
    [] field = "limit" -> [draft EXCEPT !.limit = NumberOfInput(raw)]

FieldInputs(which, field) ==
  IF which = "edit" THEN EditInputs[field] ELSE AddInputs[field]

DayChips(which) ==
  IF which = "edit" THEN EditDayChips ELSE AddDayChips

Fields == {"schedule_type", "start_time", "end_time", "limit"}

Pending == outstanding.edit + outstanding.add

\* The record of a step: the handler, its argument, and for the three commit
\* handlers whether an error was set when they started.
Step(op, arg) ==
  [op |-> op, arg |-> arg,
   hadError |-> op \in {"save", "delete", "add"} /\ state.error # ""]

(***************************************************************************)
(* Initial state: the constructor                                          *)
(***************************************************************************)

Init ==
  /\ config = FALSE
  /\ hass = [present |-> FALSE, schedules |-> <<>>]
  /\ state = [selectedId |-> Null,
              edit |-> EmptySchedule("cfg"),
              add |-> EmptySchedule("cfg"),
              error |-> ""]
  /\ alias = 0
  /\ view = [rendered |-> FALSE, error |-> "",
             editLive |-> FALSE, addLive |-> FALSE]
  /\ outstanding = [edit |-> 0, add |-> 0]
  /\ sent = <<>>
  /\ last = [op |-> "constructor", arg |-> "", hadError |-> FALSE]
  /\ calc = [fn |-> "none"]

(***************************************************************************)
(* Operations                                                              *)
(***************************************************************************)

\* setConfig(config) with a config that names an entity.
SetConfig ==
  /\ ~config
  /\ config' = TRUE
  /\ view' = Render(TRUE, state, view)
  /\ sent' = <<>>
  /\ last' = Step("setConfig", "")
  /\ UNCHANGED calc
  /\ UNCHANGED <<hass, state, alias, outstanding>>

\* set hass(hass): a new snapshot; the entity object, and with it every
\* days array, is kept only when the entity did not change.
SetHass(list) ==
  /\ hass' = [present |-> TRUE, schedules |-> list]
  /\ alias' = IF hass.present /\ hass.schedules = list THEN alias ELSE 0
  /\ state' = Refresh(state, list)
  /\ view' = Render(config, state', view)
  /\ sent' = <<>>
  /\ last' = Step("hass", "")
  /\ UNCHANGED calc
  /\ UNCHANGED <<config, outstanding>>

\* _onSelectSchedule(id)
OnSelectSchedule(id) ==
  LET schedules == GetSchedules
      i == FindIndex(schedules, id)
  IN
  /\ view.rendered
  /\ sent' = <<>>
  /\ last' = Step("select", id)
  /\ UNCHANGED calc
  /\ UNCHANGED <<config, hass, outstanding>>
  /\ IF i = 0
     THEN UNCHANGED <<state, alias, view>>
     ELSE
       LET selected == schedules[i]
           copy == SpreadDays(i, selected.days)
           st == [state EXCEPT
                    !.selectedId = id,
                    !.edit = [schedule_type |-> selected.type,
                              start_time |-> selected.start,
                              end_time |-> selected.end,
                              limit |-> selected.limit,
                              days |-> copy.days],
                    !.error = ""]
       IN
       /\ state' = st
       /\ alias' = copy.alias
       /\ view' = Render(config, st, [view EXCEPT !.editLive = FALSE])

\* The change listeners of the form controls: they write to the draft
\* object the render captured and do not render.
ChangeField(which, field, raw) ==
  /\ view.rendered
  /\ IF which = "edit"
     THEN state' = IF view.editLive
                   THEN [state EXCEPT !.edit = SetField(@, field, raw)]
                   ELSE state
     ELSE state' = IF view.addLive
                   THEN [state EXCEPT !.add = SetField(@, field, raw)]
                   ELSE state
  /\ sent' = <<>>
  /\ last' = Step("field", which \o "." \o field)
  /\ UNCHANGED calc
  /\ UNCHANGED <<config, hass, alias, view, outstanding>>

\* The click listener of a day chip: _toggleDay on the captured draft,
\* then _render.  An array shared with a reported schedule changes with it.
ClickDay(which, day) ==
  /\ view.rendered
  /\ LET live == IF which = "edit" THEN view.editLive ELSE view.addLive
         st == CASE ~live -> state
                 [] live /\ which = "edit" ->
                      [state EXCEPT !.edit.days = ToggleDay(@, day)]
                 [] live /\ which = "add" ->
                      [state EXCEPT !.add.days = ToggleDay(@, day)]
     IN
     /\ state' = st
     /\ hass' = IF live /\ which = "edit" /\ alias # 0
                THEN [hass EXCEPT !.schedules[alias].days = st.edit.days]
                ELSE hass
     /\ view' = Render(config, st, view)
  /\ sent' = <<>>
  /\ last' = Step("toggle", which)
  /\ UNCHANGED calc
  /\ UNCHANGED <<config, alias, outstanding>>

\* _handleSave()
HandleSave ==
  LET error == Validate(state.edit) IN
  /\ view.rendered
  /\ last' = Step("save", "")
  /\ UNCHANGED calc
  /\ UNCHANGED <<config, hass, alias>>
  /\ IF error # ""
     THEN /\ state' = SetError(state, error)
          /\ view' = Render(config, state', view)
          /\ sent' = <<>>
          /\ UNCHANGED outstanding
     ELSE IF NoSelection(state)
     THEN /\ state' = SetError(state, MsgSelectUpdate)
          /\ view' = Render(config, state', view)
          /\ sent' = <<>>
          /\ UNCHANGED outstanding
     ELSE /\ hass.present => Pending < MaxOutstanding
          /\ state' = ClearError(state)
          /\ sent' = ServiceCall(UpdateService, UpdateData(state'))
          /\ outstanding' =
               [outstanding EXCEPT !.edit = @ + Len(sent')]
          /\ UNCHANGED view

\* _handleDelete()
HandleDelete ==
  /\ view.rendered
  /\ last' = Step("delete", "")
  /\ UNCHANGED calc
  /\ UNCHANGED <<config, hass, alias>>
  /\ IF NoSelection(state)
     THEN /\ state' = SetError(state, MsgSelectDelete)
          /\ view' = Render(config, state', view)
          /\ sent' = <<>>
          /\ UNCHANGED outstanding
     ELSE /\ hass.present => Pending < MaxOutstanding
          /\ state' = ClearError(state)
          /\ sent' = ServiceCall(DeleteService, DeleteData(state'))
          /\ outstanding' =
               [outstanding EXCEPT !.edit = @ + Len(sent')]
          /\ UNCHANGED view

\* _handleAdd()
HandleAdd ==
  LET error == Validate(state.add) IN
  /\ view.rendered
  /\ last' = Step("add", "")
  /\ UNCHANGED calc
  /\ UNCHANGED <<config, hass, alias>>
  /\ IF error # ""
     THEN /\ state' = SetError(state, error)
          /\ view' = Render(config, state', view)
          /\ sent' = <<>>
          /\ UNCHANGED outstanding
     ELSE /\ hass.present => Pending < MaxOutstanding
          /\ state' = ClearError(state)
          /\ sent' = ServiceCall(AddService, AddData(state'))
          /\ outstanding' =
               [outstanding EXCEPT !.add = @ + Len(sent')]
          /\ UNCHANGED view

\* The gateway answers one outstanding call.  _serviceCall drops the promise
\* hass.callService returns, so neither outcome reaches the card.
Resolve(which) ==
  /\ outstanding[which] > 0
  /\ outstanding' = [outstanding EXCEPT ![which] = @ - 1]
  /\ sent' = <<>>
  /\ last' = Step("resolved", "")
  /\ UNCHANGED calc
  /\ UNCHANGED <<config, hass, state, alias, view>>

Reject(which, reason) ==
  /\ outstanding[which] > 0
  /\ outstanding' = [outstanding EXCEPT ![which] = @ - 1]
  /\ sent' = <<>>
  /\ last' = Step("rejected", reason)
  /\ UNCHANGED calc
  /\ UNCHANGED <<config, hass, state, alias, view>>

Next ==
  \/ SetConfig
  \/ \E list \in ReportedLists : SetHass(list)
  \/ \E id \in SelectIds : OnSelectSchedule(id)
  \/ \E which \in Drafts, field \in Fields :
       \E raw \in FieldInputs(which, field) : ChangeField(which, field, raw)
  \/ \E which \in Drafts : \E day \in DayChips(which) : ClickDay(which, day)
  \/ HandleSave
  \/ HandleDelete
  \/ HandleAdd
  \/ \E which \in Drafts : Resolve(which)
  \/ \E which \in Drafts, reason \in Reasons : Reject(which, reason)

Spec == Init /\ [][Next]_vars

(***************************************************************************)
(* The helper methods on their own                                         *)
(***************************************************************************)

\* The days arrays without a repeated code, in any order.
DaysArrays ==
  {s \in UNION {[1..n -> DayCodes] : n \in 0..MaxDaysLen} :
     \A i, j \in DOMAIN s : i # j => s[i] # s[j]}

\* The schedules handed to _validate.
ValidateArgs ==
  [schedule_type : {"cfg"}, start_time : ValidateTimes,
   end_time : ValidateTimes, limit : ValidateLimits, days : ValidateDays]

CardUnchanged ==
  UNCHANGED <<config, hass, state, alias, view, outstanding, sent, last>>

\* _validate(schedule)
ApplyValidate(schedule) ==
  /\ calc' = [fn |-> "validate", schedule |-> schedule,
              result |-> Validate(schedule)]
  /\ CardUnchanged

\* _toggleDay(target, day)
ApplyToggleDay(days, day) ==
  /\ calc' = [fn |-> "toggleDay", days |-> days, day |-> day,
              result |-> ToggleDay(days, day)]
  /\ CardUnchanged

\* _toggleDay(target, day) twice on the same target
ApplyToggleDayTwice(days, day) ==
  /\ calc' = [fn |-> "toggleDayTwice", days |-> days, day |-> day,
              result |-> ToggleDay(ToggleDay(days, day), day)]
  /\ CardUnchanged

HelperNext ==
  \/ \E schedule \in ValidateArgs : ApplyValidate(schedule)
  \/ \E days \in DaysArrays, day \in ToggleArgs : ApplyToggleDay(days, day)
  \/ \E days \in DaysArrays, day \in DayCodes :
       ApplyToggleDayTwice(days, day)

HelperSpec == Init /\ [][HelperNext]_vars

(***************************************************************************)
(* Properties                                                              *)
(***************************************************************************)

Commits == {"save", "delete", "add"}

\* The draft a commit handler validates.
TargetDraft(op) == IF op = "add" THEN state.add ELSE state.edit

\* The limit is a number from 0 to 100.
InRange(x) == ~x.nan /\ 0 <= x.num /\ x.num <= 100 * x.den

\* The validation failure the specification assigns to a draft: time range
\* first, then days, then limit; "" for a draft without a violation.
ExpectedFailure(d) ==
  IF d.start_time = d.end_time THEN MsgTimeRange
  ELSE IF d.days = <<>> THEN MsgNoDays
  ELSE IF ~InRange(d.limit) THEN MsgLimit
  ELSE ""

\* The id is one of the ids of the list the card currently reads.
Listed(id) ==
  /\ config
  /\ hass.present
  /\ \E i \in DOMAIN hass.schedules : hass.schedules[i].id = id

\* C1: every add or update request handed to the gateway carries
\* start_time # end_time, a non-empty days list and a limit within 0..100.
C1_RequestsAreValid ==
  \A k \in DOMAIN sent :
    sent[k].service \in {AddService, UpdateService} =>
      /\ sent[k].data.start_time # sent[k].data.end_time
      /\ sent[k].data.days # <<>>
      /\ InRange(sent[k].data.limit)

\* C1 witness: an update request was issued after an earlier attempt failed.
C1_Witness ==
  /\ last.op = "save"
  /\ last.hadError
  /\ Len(sent) = 1
  /\ sent[1].service = UpdateService

\* C2: a save or add whose target draft fails validation ends with Error set
\* to the message of that validation failure and issues no gateway call,
\* whatever the Selection is.
C2_InvalidDraftIsRefused ==
  (last.op \in {"save", "add"} /\ ExpectedFailure(TargetDraft(last.op)) # "")
    => /\ state.error = ExpectedFailure(TargetDraft(last.op))
       /\ sent = <<>>

\* C2 witness: add on a draft with days and a valid limit but start = end.
C2_Witness ==
  /\ last.op = "add"
  /\ state.add.start_time = state.add.end_time
  /\ state.add.days # <<>>
  /\ state.error = MsgTimeRange
  /\ sent = <<>>

\* C3 as stated: save or delete with a null Selection yields the NoSelection
\* error and no gateway call, for every content of the edit draft.
C3_Original ==
  /\ (last.op = "save" /\ state.selectedId = Null)
       => (state.error = MsgSelectUpdate /\ sent = <<>>)
  /\ (last.op = "delete" /\ state.selectedId = Null)
       => (state.error = MsgSelectDelete /\ sent = <<>>)

\* C3 amended: with a null Selection neither save nor delete issues a call;
\* delete always reports NoSelection, save reports NoSelection when the edit
\* draft passes validation and the validation failure when it does not.
C3_NoSelection ==
  /\ (last.op = "save" /\ state.selectedId = Null)
       => /\ sent = <<>>
          /\ state.error =
               IF ExpectedFailure(state.edit) = "" THEN MsgSelectUpdate
               ELSE ExpectedFailure(state.edit)
  /\ (last.op = "delete" /\ state.selectedId = Null)
       => (state.error = MsgSelectDelete /\ sent = <<>>)

\* C3 witness: save with a null Selection on an edit draft that is valid.
C3_Witness ==
  /\ last.op = "save"
  /\ state.selectedId = Null
  /\ ExpectedFailure(state.edit) = ""
  /\ state.error = MsgSelectUpdate
  /\ sent = <<>>

\* The error the specification names for a trigger during a pending call.
MsgOperationInProgress == "OperationInProgress"

\* After a commit handler: the calls of a draft that were unanswered when
\* the handler began (the handler's own call is in sent).
OutstandingBefore(which) ==
  IF (which = "add") = (last.op = "add") /\ last.op \in Commits
  THEN outstanding[which] - Len(sent)
  ELSE outstanding[which]

\* C4 as stated: a save triggered while a call for the edit draft is
\* unanswered is rejected with OperationInProgress without a second call, and
\* no draft ever has more than one unanswered call.
C4_Original ==
  /\ \A which \in Drafts : outstanding[which] <= 1
  /\ (last.op = "save" /\ OutstandingBefore("edit") >= 1)
       => (sent = <<>> /\ state.error = MsgOperationInProgress)

\* C4 amended: the card has no in-progress guard; a save triggered while a
\* call for the edit draft is unanswered is handled like any other save: with
\* a valid edit draft and a Selection it clears Error and issues one more
\* update call.
C4_SaveWhilePending ==
  (/\ last.op = "save"
   /\ OutstandingBefore("edit") >= 1
   /\ ExpectedFailure(state.edit) = ""
   /\ state.selectedId # Null
   /\ hass.present)
    => /\ Len(sent) = 1
       /\ sent[1].service = UpdateService
       /\ state.error = ""
       /\ outstanding.edit >= 2

\* C4 witness: a save issued its call while an earlier one was unanswered.
C4_Witness ==
  /\ last.op = "save"
  /\ OutstandingBefore("edit") >= 1
  /\ Len(sent) = 1
  /\ outstanding.edit = 2

\* The error the specification names for a failure reported by the gateway.
RemoteRejected(reason) == "RemoteRejected(" \o reason \o ")"

\* C5: when the gateway answers a call with a failure carrying reason R,
\* Error becomes the RemoteRejected message carrying R.
C5_RemoteFailureIsSurfaced ==
  last.op = "rejected" => state.error = RemoteRejected(last.arg)

\* C6 as stated: every save, delete or add that passes its local checks
\* issues exactly one gateway call with the matching payload.
C6_Original ==
  /\ (last.op = "save" /\ ExpectedFailure(state.edit) = ""
        /\ state.selectedId # Null)
       => sent = <<[service |-> UpdateService,
                    data |-> [schedule_id |-> state.selectedId,
                              schedule_type |-> state.edit.schedule_type,
                              start_time |-> state.edit.start_time,
                              end_time |-> state.edit.end_time,
                              limit |-> state.edit.limit,
                              days |-> state.edit.days,
                              confirm |-> TRUE]]>>
  /\ (last.op = "delete" /\ state.selectedId # Null)
       => sent = <<[service |-> DeleteService,
                    data |-> [schedule_id |-> state.selectedId,
                              confirm |-> TRUE]]>>
  /\ (last.op = "add" /\ ExpectedFailure(state.add) = "")
       => sent = <<[service |-> AddService,
                    data |-> [schedule_type |-> state.add.schedule_type,
                              start_time |-> state.add.start_time,
                              end_time |-> state.add.end_time,
                              limit |-> state.add.limit,
                              days |-> state.add.days]]>>

\* C6 amended: once a hass object has been delivered to the card, every
\* save, delete or add that passes its local checks issues exactly one
\* gateway call with the matching payload; while none has been delivered the
\* operation issues no call.
C6_OneCallPerCommit ==
  IF hass.present THEN C6_Original
  ELSE last.op \in Commits => sent = <<>>

\* C6 witness: an add of a dtg draft issued its single call.
C6_Witness ==
  /\ last.op = "add"
  /\ state.add.schedule_type = "dtg"
  /\ state.add.days = <<7>>
  /\ Len(sent) = 1
  /\ sent[1].service = AddService

C8_DanglingSelection ==
  (last.op \in {"save", "delete"} /\ state.selectedId # Null
     /\ ~Listed(state.selectedId))
    => /\ sent = <<>>
       /\ last.op = "delete" => state.error = MsgSelectDelete
       /\ (last.op = "save" /\ ExpectedFailure(state.edit) = "")
            => state.error = MsgSelectUpdate

\* C9: selectSchedule with an id that is not in the current list changes
\* neither Selection, nor a draft, nor Error, and renders nothing new.
C9_SelectUnknownIsNoOp ==
  [][(last'.op = "select" /\ ~Listed(last'.arg))
       => (state' = state /\ view' = view /\ hass' = hass)]_vars

\* C9 witness: an unknown id was selected while a schedule was selected and
\* an error was set.
C9_Witness ==
  /\ last.op = "select"
  /\ last.arg = "sched-3"
  /\ state.selectedId = "sched-1"
  /\ state.error # ""

\* C10: the card never changes the authoritative list: whatever was selected,
\* edited, toggled or committed, the list is one the gateway reported.
C10_ListUntouched ==
  hass.present => hass.schedules \in ReportedLists

\* C10 witness: a day was toggled on the edit draft copied from sched-1,
\* which is still in the list.
C10_Witness ==
  /\ last.op = "toggle"
  /\ state.selectedId = "sched-1"
  /\ state.edit.days # Sched1.days
  /\ Listed("sched-1")

\* The elements of an array, and an array in strictly ascending order.
Elements(s) == {s[i] : i \in DOMAIN s}
Ascending(s) == \A i, j \in DOMAIN s : i < j => s[i] < s[j]

\* C11: validate checks the time range, then the days, then the limit and
\* reports the first violation: start = end yields InvalidTimeRange whatever
\* the days and the limit, and start # end with empty days yields
\* EmptyDaySelection whatever the limit.
C11_ValidateOrder ==
  calc.fn = "validate" =>
    /\ calc.schedule.start_time = calc.schedule.end_time
         => calc.result = MsgTimeRange
    /\ (calc.schedule.start_time # calc.schedule.end_time
          /\ calc.schedule.days = <<>>)
         => calc.result = MsgNoDays

\* C11 witness: a schedule that violates all three rules was validated.
C11_Witness ==
  /\ calc.fn = "validate"
  /\ calc.schedule.start_time = calc.schedule.end_time
  /\ calc.schedule.days = <<>>
  /\ calc.schedule.limit = Num(101)
  /\ calc.result = MsgTimeRange

\* The limit is an integer from 0 to 100.
IntegerInRange(x) == InRange(x) /\ x.num % x.den = 0

\* C12: for a draft with start # end and days, validate returns
\* LimitOutOfRange exactly when the limit is not an integer in [0,100], and
\* success otherwise.
C12_LimitRule ==
  (/\ calc.fn = "validate"
   /\ calc.schedule.start_time # calc.schedule.end_time
   /\ calc.schedule.days # <<>>)
    => calc.result =
         IF IntegerInRange(calc.schedule.limit) THEN "" ELSE MsgLimit

\* C13: toggling day D twice returns the original days: the same codes, and
\* the same array when the codes were in ascending order.
C13_ToggleTwice ==
  calc.fn = "toggleDayTwice" =>
    /\ Elements(calc.result) = Elements(calc.days)
    /\ Len(calc.result) = Len(calc.days)
    /\ Ascending(calc.days) => calc.result = calc.days

\* C13 witness: a day of a two-day array was toggled off and on again.
C13_Witness ==
  /\ calc.fn = "toggleDayTwice"
  /\ calc.days = <<1, 2>>
  /\ calc.day = 1
  /\ calc.result = <<1, 2>>

\* C14: each draft's days holds only weekday codes 1..7, each at most once.
C14_DaysAreWeekdays ==
  \A which \in Drafts :
    /\ \A i \in DOMAIN state[which].days : state[which].days[i] \in 1..7
    /\ \A i, j \in DOMAIN state[which].days :
         i # j => state[which].days[i] # state[which].days[j]

\* C14 witness: a day was toggled back into the days copied from sched-1.
C14_Witness ==
  /\ last.op = "toggle"
  /\ last.arg = "edit"
  /\ state.selectedId = "sched-1"
  /\ state.edit.days = <<6, 7>>
  /\ state.add.days = <<7>>

\* The type the current list reports for the schedule with this id.
ListedTypes(id) ==
  {hass.schedules[i].type :
     i \in {j \in DOMAIN hass.schedules : hass.schedules[j].id = id}}

\* C15 as stated: every update request carries the type the list reports
\* for the selected schedule, even after the type field was changed.
C15_Original ==
  (last.op = "save" /\ Len(sent) = 1 /\ Listed(state.selectedId))
    => sent[1].data.schedule_type \in ListedTypes(state.selectedId)

\* C15 amended: every update request carries the type of the edit draft,
\* which is the type copied at selection or the type the user chose since.
C15_UpdateCarriesDraftType ==
  (last.op = "save" /\ Len(sent) = 1)
    => /\ sent[1].service = UpdateService
       /\ sent[1].data.schedule_type = state.edit.schedule_type

\* C15 witness: an update for the cfg schedule sched-1 was sent with the
\* type dtg the user chose.
C15_Witness ==
  /\ last.op = "save"
  /\ Len(sent) = 1
  /\ state.selectedId = "sched-1"
  /\ ListedTypes("sched-1") = {"cfg"}
  /\ sent[1].data.schedule_type = "dtg"

\* C16: a save, add or delete that fails (validation failure, NoSelection or
\* a failure reported by the gateway) leaves both drafts and the Selection as
\* they were.
C16_FailureKeepsDrafts ==
  [][((last'.op \in Commits /\ state'.error # "") \/ last'.op = "rejected")
       => /\ state'.edit = state.edit
          /\ state'.add = state.add
          /\ state'.selectedId = state.selectedId]_vars

\* C16 witness: an add failed on its limit and the add draft is still the
\* one the user entered.
C16_Witness ==
  /\ last.op = "add"
  /\ state.error = MsgLimit
  /\ state.add.limit = Num(101)
  /\ state.add.start_time = "22:00"
  /\ state.add.days = <<7>>

\* C17: selectSchedule with an id of the current list sets Selection to it,
\* replaces the whole edit draft by the schedule's type, start, end, limit
\* and days, clears Error and leaves the add draft unchanged.
C17_SelectCopiesSchedule ==
  [][(last'.op = "select" /\ Listed(last'.arg))
       => /\ state'.selectedId = last'.arg
          /\ \E i \in DOMAIN hass.schedules :
               /\ hass.schedules[i].id = last'.arg
               /\ state'.edit =
                    [schedule_type |-> hass.schedules[i].type,
                     start_time |-> hass.schedules[i].start,
                     end_time |-> hass.schedules[i].end,
                     limit |-> hass.schedules[i].limit,
                     days |-> hass.schedules[i].days]
          /\ state'.error = ""
          /\ state'.add = state.add]_vars

\* C17 witness: sched-1 was selected while the add draft held entries.
C17_Witness ==
  /\ last.op = "select"
  /\ last.arg = "sched-1"
  /\ state.selectedId = "sched-1"
  /\ state.edit.days = <<6, 7>>
  /\ state.edit.start_time = "22:00"
  /\ state.add.schedule_type = "dtg"
  /\ state.add.days = <<7>>

\* C18: delete never validates the edit draft: with a Selection it issues
\* delete(selected id, confirm = true) and clears Error, also when the edit
\* draft would fail validation.
C18_DeleteSkipsValidation ==
  (last.op = "delete" /\ state.selectedId # Null)
    => /\ sent = <<[service |-> DeleteService,
                    data |-> [schedule_id |-> state.selectedId,
                              confirm |-> TRUE]]>>
       /\ state.error = ""

\* C18 witness: a delete was issued while the edit draft was invalid.
C18_Witness ==
  /\ last.op = "delete"
  /\ state.selectedId = "sched-1"
  /\ ExpectedFailure(state.edit) # ""
  /\ Len(sent) = 1

\* C19: toggleDay yields the symmetric difference of the day against the
\* days, in ascending order, and leaves the days unchanged when the day is
\* not in 1..7.
C19_ToggleDay ==
  calc.fn = "toggleDay" =>
    IF calc.day \in 1..7
    THEN /\ Elements(calc.result) =
              (Elements(calc.days) \ {calc.day})
                \cup ({calc.day} \ Elements(calc.days))
         /\ Ascending(calc.result)
    ELSE calc.result = calc.days

\* C20: a field edit or a day toggle changes only the named field of the
\* named draft; the other draft, Selection and Error stay as they were and no
\* gateway call is issued.
C20_EditTouchesOneField ==
  [][/\ last'.op = "field" =>
          /\ \E which \in Drafts, field \in Fields :
               /\ last'.arg = which \o "." \o field
               /\ state' =
                    [state EXCEPT ![which][field] = state'[which][field]]
          /\ sent' = <<>>
          /\ outstanding' = outstanding
     /\ last'.op = "toggle" =>
          /\ state' =
               [state EXCEPT ![last'.arg].days = state'[last'.arg].days]
          /\ sent' = <<>>
          /\ outstanding' = outstanding]_vars

\* C20 witness: the limit of the edit draft was set to a value validation
\* rejects, and no error was raised.
C20_Witness ==
  /\ last.op = "field"
  /\ last.arg = "edit.limit"
  /\ state.edit.limit = Num(101)
  /\ state.error = ""
  /\ state.selectedId = "sched-1"

\* C21: a new hass snapshot changes neither draft, nor Selection, nor Error
\* and issues no gateway call, whatever the user has entered before it.
C21_RefreshKeepsState ==
  [][last'.op = "hass"
       => /\ state' = state
          /\ sent' = <<>>
          /\ outstanding' = outstanding]_vars

\* C21 witness: a snapshot without the selected schedule arrived while the
\* edit draft held an entry of the user and an error was set.
C21_Witness ==
  /\ last.op = "hass"
  /\ hass.schedules = <<Sched2>>
  /\ state.selectedId = "sched-1"
  /\ state.edit.limit = Num(101)
  /\ state.error = MsgLimit
  /\ state.add.days = <<7>>

\* The handlers that C22 names.
ViewHandlers == {"select", "toggle", "save", "add", "delete"}

\* C22: after a select, day toggle, save, add or delete the error message
\* the rendered view shows is the Error of the state.
C22_ViewShowsError ==
  (view.rendered /\ last.op \in ViewHandlers) => view.error = state.error

\* The codes of an array after one more click on a day.
Toggled(days, day) ==
  (Elements(days) \ {day}) \cup ({day} \ Elements(days))

\* C23: the listeners of the latest render hold the draft objects of the
\* state: every field edit sets the field of the current draft to the value
\* entered and every day click toggles the day in the current draft, also
\* after a selection has replaced the edit draft.
C23_ListenersWriteCurrentDraft ==
  /\ [](view.rendered => view.editLive /\ view.addLive)
  /\ [][/\ last'.op = "field" =>
             \E which \in Drafts, field \in Fields :
               /\ last'.arg = which \o "." \o field
               /\ \E raw \in FieldInputs(which, field) :
                    state'[which][field] =
                      IF field = "limit" THEN NumberOfInput(raw) ELSE raw
        /\ last'.op = "toggle" =>
             \E day \in DayChips(last'.arg) :
               Elements(state'[last'.arg].days) =
                 Toggled(state[last'.arg].days, day)]_vars

\* C23 witness: after sched-1 was selected, an edit of the end time is in
\* the edit draft next to the days the selection copied.
C23_Witness ==
  /\ last.op = "field"
  /\ last.arg = "edit.end_time"
  /\ state.selectedId = "sched-1"
  /\ state.edit.end_time = "22:00"
  /\ state.edit.start_time = "22:00"
  /\ state.edit.days = <<6, 7>>

====
